---- MODULE Spec2Model ----
(***************************************************************************)
(* Job architecture of the Expert Suitability Engine: the `jobs` table in  *)
(* Postgres used as a queue, the web API that enqueues and reads jobs, and *)
(* the background worker that claims, executes and finishes them.          *)
(* The SQL statements and the worker loop are those of the job             *)
(* architecture document (src/unnamed/part_000).                           *)
(***************************************************************************)
EXTENDS Integers, Sequences, FiniteSets, TLC

\* ---------------------------------------------------------------- bounds
MaxJobs == 2
NumWorkers == 2
MaxSearches == 2
MaxPolls == 1
MaxCreators == 2

\* ---------------------------------------------------------------- values
Workers == 1..NumWorkers
NULL == "NULL"
NoTime == 0
NoJob == 0
Payloads == {"p1"}
Progresses == {"a", "b"}
Results == {"r1", "r2"}
Messages == {"e1"}
UnknownKindError == "UnknownKindError"
NotFound == [status |-> "NotFound"]
ValidationError == [status |-> "ValidationError"]
BadKind == "bogus"
BadPayload == "malformed"
Kinds == {"search", "export"}
Registered == {"search"}
Terminal == {"completed", "failed"}
NoTimer == 0
NoStep == ""
FirstStep == "embedding"
Steps == {"scoring", "done"}
SearchResponses == {"s1", "s2"}
SearchErrors == {"Search failed"}
PostSearchRequest == [method |-> "POST", path |-> "/search"]
GetProgressRequest == [method |-> "GET", path |-> "/progress"]
GetJobPath == "/jobs/{job_id}"
Queries == {"q1", "q2"}
PageLimit == 1
LoadMoreError == "Load more failed"
NoResults == [query |-> NULL, creators |-> <<>>, filtered_count |-> 0]

VARIABLES jobs, now, pc, sel, cur, delivered, resp,
          isLoading, error, results, hasSearched, progress, progressInterval,
          timers, searches, polls, requests, mounted,
          hookIsLoading, hookError, hookResults, inflight

\* The state of the job architecture, of the Home page and of the useSearch
\* hook.
jobVars == <<jobs, now, pc, sel, cur, delivered, resp>>
homeVars == <<isLoading, error, results, hasSearched, progress,
              progressInterval, timers, searches, polls, requests, mounted>>
hookVars == <<hookIsLoading, hookError, hookResults, inflight>>
uiVars == <<homeVars, hookVars>>
vars == <<jobVars, uiVars>>

JobIds == DOMAIN jobs

\* ------------------------------------------------------------ the store
\* One row of the jobs table.
NewJob(kind, payload, t) ==
    [type |-> kind, status |-> "pending", payload |-> payload,
     progress |-> NULL, result |-> NULL, error_message |-> NULL,
     created_at |-> t, updated_at |-> t, started_at |-> NoTime]

\* An insert that also puts the rows already there back to pending.
insert_requeue(kind, payload) ==
    /\ Len(jobs) < MaxJobs
    /\ \E t \in {now, now + 1} :
        /\ now' = t
        /\ jobs' = Append([i \in DOMAIN jobs |->
                              [jobs[i] EXCEPT !.status = "pending"]],
                          NewJob(kind, payload, t))
    /\ delivered' = Append(delivered, 0)

\* INSERT INTO jobs (type, payload, status) VALUES (kind, payload, 'pending')
\* created_at is NOW() at the insert: the instant of the previous insert (a tie)
\* or a later one.  Timestamps are only ever compared, so the clock counts the
\* distinct instants at which rows were inserted.
insert(kind, payload) ==
    /\ Len(jobs) < MaxJobs
    /\ \E t \in {now, now + 1} :
        /\ now' = t
        /\ jobs' = Append(jobs, NewJob(kind, payload, t))
    /\ delivered' = Append(delivered, 0)

\* A row is locked while a claim statement that selected it has not committed.
Locked(id) == \E w \in Workers : sel[w] = id

\* The subquery without FOR UPDATE SKIP LOCKED.
ClaimableNoSkip == {id \in JobIds : jobs[id].status = "pending"}

\* The subquery without WHERE status = 'pending'.
ClaimableAnyStatus == {id \in JobIds : ~Locked(id)}

\* The subquery with a lease reclaim: also a running row that no worker is
\* executing.
ClaimableReclaim ==
    {id \in JobIds :
        /\ ~Locked(id)
        /\ \/ jobs[id].status = "pending"
           \/ /\ jobs[id].status = "running"
              /\ \A w \in Workers : ~(pc[w] = "execute" /\ cur[w] = id)}

\* SELECT id FROM jobs WHERE status = 'pending' ... FOR UPDATE SKIP LOCKED
Claimable == {id \in JobIds : jobs[id].status = "pending" /\ ~Locked(id)}

\* LIMIT 1 without ORDER BY: any row.
AnyRow(S) == S

\* ORDER BY created_at DESC LIMIT 1.
Newest(S) == {id \in S : \A o \in S : jobs[id].created_at >= jobs[o].created_at}

\* ORDER BY created_at ASC LIMIT 1: one of the rows with the least created_at.
Oldest(S) == {id \in S : \A o \in S : jobs[id].created_at <= jobs[o].created_at}

\* The claim UPDATE without started_at.
set_running_no_started_at(id) ==
    [jobs EXCEPT ![id].status = "running", ![id].updated_at = now]

\* UPDATE jobs SET status = 'running', started_at = NOW(), updated_at = NOW()
set_running(id) ==
    [jobs EXCEPT ![id].status = "running", ![id].started_at = now,
                 ![id].updated_at = now]

\* The progress UPDATE without WHERE id = <job_id>.
write_progress_all_rows(id, p) ==
    [i \in DOMAIN jobs |-> [jobs[i] EXCEPT !.progress = p, !.updated_at = now]]

\* The progress UPDATE writing the first step whatever the callback was given.
write_progress_first_step(id, p) ==
    [jobs EXCEPT ![id].progress = "a", ![id].updated_at = now]

\* The progress UPDATE that also stores a partial result.
write_progress_partial_result(id, p) ==
    [jobs EXCEPT ![id].progress = p, ![id].result = "r1",
                 ![id].updated_at = now]

\* UPDATE jobs SET progress = <json>, updated_at = NOW() WHERE id = <job_id>
write_progress(id, p) ==
    [jobs EXCEPT ![id].progress = p, ![id].updated_at = now]

\* The success UPDATE storing a fixed result.
finalize_success_fixed_result(id, r) ==
    [jobs EXCEPT ![id].status = "completed", ![id].result = "r1",
                 ![id].progress = NULL, ![id].updated_at = now]

\* The success UPDATE without result.
finalize_success_no_result(id, r) ==
    [jobs EXCEPT ![id].status = "completed", ![id].progress = NULL,
                 ![id].updated_at = now]

\* UPDATE jobs SET status = 'completed', result = <full response>,
\*   progress = NULL, updated_at = NOW() WHERE id = <job_id>
finalize_success(id, r) ==
    [jobs EXCEPT ![id].status = "completed", ![id].result = r,
                 ![id].progress = NULL, ![id].updated_at = now]

\* The failure UPDATE without status = 'failed'.
finalize_failure_keeps_running(id, m) ==
    [jobs EXCEPT ![id].error_message = m, ![id].updated_at = now]

\* The failure UPDATE that also stores a partial result.
finalize_failure_with_result(id, m) ==
    [jobs EXCEPT ![id].status = "failed", ![id].error_message = m,
                 ![id].result = "r1", ![id].updated_at = now]

\* The failure UPDATE without error_message.
finalize_failure_no_message(id, m) ==
    [jobs EXCEPT ![id].status = "failed", ![id].updated_at = now]

\* UPDATE jobs SET status = 'failed', error_message = <str(e)>,
\*   updated_at = NOW() WHERE id = <job_id>
finalize_failure(id, m) ==
    [jobs EXCEPT ![id].status = "failed", ![id].error_message = m,
                 ![id].updated_at = now]

\* GET /api/v1/jobs/{job_id}: the job record, or NotFound.
read(id) == IF id \in JobIds THEN [id |-> id, job |-> jobs[id]]
            ELSE [id |-> id, job |-> NotFound]

\* ---------------------------------------------------------------- Init
Init ==
    /\ jobs = <<>>
    /\ now = 1
    /\ pc = [w \in Workers |-> "claim"]
    /\ sel = [w \in Workers |-> NoJob]
    /\ cur = [w \in Workers |-> NoJob]
    /\ delivered = <<>>
    /\ resp = [id |-> NoJob, job |-> NotFound]
    /\ isLoading = FALSE
    /\ error = NULL
    /\ results = NULL
    /\ hasSearched = FALSE
    /\ progress = NoStep
    /\ progressInterval = NoTimer
    /\ timers = {}
    /\ searches = 0
    /\ polls = 0
    /\ requests = {}
    /\ mounted = TRUE
    /\ hookIsLoading = FALSE
    /\ hookError = NULL
    /\ hookResults = NoResults
    /\ inflight = <<>>

\* -------------------------------------------------------------- web API
\* The search endpoint running search_creators in the request, as before the
\* job architecture: the row it leaves is already completed.
PostSearchInline ==
    \E p \in Payloads, r \in Results :
        /\ Len(jobs) < MaxJobs
        /\ jobs' = Append(jobs, [NewJob("search", p, now) EXCEPT
                                   !.status = "completed", !.result = r])
        /\ delivered' = Append(delivered, 0)
        /\ UNCHANGED <<now, pc, sel, cur, resp, uiVars>>

\* POST /api/v1/search: enqueue only.
PostSearch ==
    \E p \in Payloads :
        /\ insert("search", p)
        /\ UNCHANGED <<pc, sel, cur, resp, uiVars>>

\* A row whose type the worker has no branch for.
InsertOther ==
    \E k \in Kinds \ Registered, p \in Payloads :
        /\ insert(k, p)
        /\ UNCHANGED <<pc, sel, cur, resp, uiVars>>

\* A gateway that validates nothing.
ValidAlways(kind, payload) == TRUE

\* The submission is well formed: a recognized kind and a payload that matches
\* the schema of the kind and can be serialized.
Valid(kind, payload) == kind \in Kinds /\ payload \in Payloads

\* submit(kind, payload) of the Submission Gateway: validate, then insert and
\* answer with the new job's id.
Submit(kind, payload) ==
    /\ IF Valid(kind, payload)
       THEN /\ insert(kind, payload)
            /\ resp' = [id |-> Len(jobs) + 1, job |-> [status |-> "pending"]]
       ELSE /\ resp' = [id |-> NoJob, job |-> ValidationError]
            /\ UNCHANGED <<jobs, now, delivered>>
    /\ UNCHANGED <<pc, sel, cur, uiVars>>

\* A read that touches the row it returns.
GetJobTouch(id) ==
    /\ resp' = read(id)
    /\ jobs' = IF id \in JobIds THEN [jobs EXCEPT ![id].updated_at = now]
               ELSE jobs
    /\ UNCHANGED <<now, pc, sel, cur, delivered, uiVars>>

\* GET /api/v1/jobs/{job_id}
GetJob(id) ==
    /\ resp' = read(id)
    /\ UNCHANGED <<jobs, now, pc, sel, cur, delivered, uiVars>>

\* --------------------------------------------------------------- worker
\* Step 1, the subquery: pick and lock the oldest pending row that no other
\* claim holds; no row means the statement returns nothing.
ClaimSelect(w) ==
    /\ pc[w] = "claim"
    /\ IF Claimable = {}
       THEN /\ pc' = [pc EXCEPT ![w] = "sleep"]
            /\ cur' = [cur EXCEPT ![w] = NoJob]
            /\ sel' = sel
       ELSE \E id \in Oldest(Claimable) :
            /\ sel' = [sel EXCEPT ![w] = id]
            /\ pc' = [pc EXCEPT ![w] = "update"]
            /\ cur' = cur
    /\ UNCHANGED <<jobs, now, delivered, resp, uiVars>>

\* Step 1, the UPDATE ... RETURNING and the commit that releases the lock.
ClaimUpdate(w) ==
    /\ pc[w] = "update"
    /\ jobs' = set_running(sel[w])
    /\ cur' = [cur EXCEPT ![w] = sel[w]]
    /\ delivered' = [delivered EXCEPT ![sel[w]] = @ + 1]
    /\ sel' = [sel EXCEPT ![w] = NoJob]
    /\ pc' = [pc EXCEPT ![w] = "execute"]
    /\ UNCHANGED <<now, resp, uiVars>>

\* "If no row returned, sleep and repeat."
Wake(w) ==
    /\ pc[w] = "sleep"
    /\ pc' = [pc EXCEPT ![w] = "claim"]
    /\ UNCHANGED <<jobs, now, sel, cur, delivered, resp, uiVars>>

\* Step 2: a job whose type has no executor fails.
UnknownKind(w) ==
    /\ pc[w] = "execute"
    /\ jobs[cur[w]].type \notin Registered
    /\ jobs' = finalize_failure(cur[w], UnknownKindError)
    /\ pc' = [pc EXCEPT ![w] = "claim"]
    /\ UNCHANGED <<now, sel, cur, delivered, resp, uiVars>>

\* Step 2: the executor of worker w's job calls its progress callback with p.
progress_callback(w, p) ==
    /\ pc[w] = "execute"
    /\ jobs[cur[w]].type \in Registered
    /\ jobs' = write_progress(cur[w], p)
    /\ UNCHANGED <<now, pc, sel, cur, delivered, resp, uiVars>>

ProgressCallback(w) == \E p \in Progresses : progress_callback(w, p)

\* Step 3, on success, with the loop sleeping before its next claim.
executor_returns_then_sleep(w, r) ==
    /\ pc[w] = "execute"
    /\ jobs[cur[w]].type \in Registered
    /\ jobs' = finalize_success(cur[w], r)
    /\ pc' = [pc EXCEPT ![w] = "sleep"]
    /\ UNCHANGED <<now, sel, cur, delivered, resp, uiVars>>

\* Step 3, on success: search_creators of worker w's job returned r.
executor_returns(w, r) ==
    /\ pc[w] = "execute"
    /\ jobs[cur[w]].type \in Registered
    /\ jobs' = finalize_success(cur[w], r)
    /\ pc' = [pc EXCEPT ![w] = "claim"]
    /\ UNCHANGED <<now, sel, cur, delivered, resp, uiVars>>

ExecutorReturn(w) == \E r \in Results : executor_returns(w, r)

\* The executor raises and the loop crashes with it.
ExecutorRaiseUncaught(w) ==
    /\ pc[w] = "execute"
    /\ jobs[cur[w]].type \in Registered
    /\ pc' = [pc EXCEPT ![w] = "crashed"]
    /\ UNCHANGED <<jobs, now, sel, cur, delivered, resp, uiVars>>

\* Step 3, on exception: search_creators of worker w's job raised e, str(e) = m.
executor_raises(w, m) ==
    /\ pc[w] = "execute"
    /\ jobs[cur[w]].type \in Registered
    /\ jobs' = finalize_failure(cur[w], m)
    /\ pc' = [pc EXCEPT ![w] = "claim"]
    /\ UNCHANGED <<now, sel, cur, delivered, resp, uiVars>>

ExecutorRaise(w) == \E m \in Messages : executor_raises(w, m)

\* The worker process dies; an open claim statement is rolled back.
Crash(w) ==
    /\ pc[w] # "crashed"
    /\ pc' = [pc EXCEPT ![w] = "crashed"]
    /\ sel' = [sel EXCEPT ![w] = NoJob]
    /\ cur' = [cur EXCEPT ![w] = NoJob]
    /\ UNCHANGED <<jobs, now, delivered, resp, uiVars>>

WorkerStep(w) ==
    \/ ClaimSelect(w)
    \/ ClaimUpdate(w)
    \/ Wake(w)
    \/ UnknownKind(w)
    \/ ProgressCallback(w)
    \/ ExecutorReturn(w)
    \/ ExecutorRaise(w)

\* The web API enqueues; the worker processes run their loops.
Next ==
    \/ PostSearch
    \/ InsertOther
    \/ \E w \in Workers : WorkerStep(w)

Spec == Init /\ [][Next]_vars

\* Worker processes that keep running, with executors that return or raise.
Fairness ==
    \A w \in Workers :
        /\ WF_vars(ClaimSelect(w))
        /\ WF_vars(ClaimUpdate(w))
        /\ WF_vars(Wake(w))
        /\ WF_vars(UnknownKind(w))
        /\ WF_vars(ExecutorReturn(w) \/ ExecutorRaise(w))

LiveSpec == Init /\ [][Next]_vars /\ Fairness

\* The worker loops with process crashes.
CrashNext ==
    \/ PostSearch
    \/ InsertOther
    \/ \E w \in Workers : WorkerStep(w)
    \/ \E w \in Workers : Crash(w)

CrashSpec == Init /\ [][CrashNext]_vars

\* ------------------------------------------- the store called directly
\* write_progress(id, p), finalize_success(id, r) and finalize_failure(id, m)
\* issued by any client of the jobs table, for any row.
WriteProgressCall(id, p) ==
    /\ id \in JobIds
    /\ jobs' = write_progress(id, p)
    /\ UNCHANGED <<now, pc, sel, cur, delivered, resp, uiVars>>

FinalizeSuccessCall(id, r) ==
    /\ id \in JobIds
    /\ jobs' = finalize_success(id, r)
    /\ UNCHANGED <<now, pc, sel, cur, delivered, resp, uiVars>>

FinalizeFailureCall(id, m) ==
    /\ id \in JobIds
    /\ jobs' = finalize_failure(id, m)
    /\ UNCHANGED <<now, pc, sel, cur, delivered, resp, uiVars>>

StoreNext ==
    \/ PostSearch
    \/ InsertOther
    \/ \E w \in Workers : WorkerStep(w)
    \/ \E id \in 1..MaxJobs, p \in Progresses : WriteProgressCall(id, p)
    \/ \E id \in 1..MaxJobs, r \in Results : FinalizeSuccessCall(id, r)
    \/ \E id \in 1..MaxJobs, m \in Messages : FinalizeFailureCall(id, m)

StoreSpec == Init /\ [][StoreNext]_vars

\* The web API also serves job status, beside the one worker process of the
\* recommended deployment.
ReadNext ==
    \/ PostSearch
    \/ InsertOther
    \/ WorkerStep(1)
    \/ \E id \in 0..MaxJobs : GetJob(id)

ReadSpec == Init /\ [][ReadNext]_vars

\* The Submission Gateway with submissions of every shape, beside one worker.
SubmitNext ==
    \/ \E k \in Kinds \cup {BadKind}, p \in Payloads \cup {BadPayload} :
          Submit(k, p)
    \/ WorkerStep(1)

SubmitSpec == Init /\ [][SubmitNext]_vars

\* ------------------------------------------------------- the Home page
\* The effect on [isLoading] without its cleanup and without the clearInterval
\* of its else branch.
useEffectNoClear(v) ==
    IF v = isLoading
    THEN UNCHANGED <<progressInterval, timers>>
    ELSE LET t == CHOOSE n \in 1..(Cardinality(timers) + 1) : n \notin timers
         IN IF v
            THEN progressInterval' = t /\ timers' = timers \cup {t}
            ELSE progressInterval' = NoTimer /\ timers' = timers

\* The effect on [isLoading], run when a handler changed isLoading to v: the
\* cleanup of the previous run clears the interval the ref holds; the body
\* starts a new interval when v is true and otherwise clears the ref.
useEffect(v) ==
    IF v = isLoading
    THEN UNCHANGED <<progressInterval, timers>>
    ELSE LET kept == timers \ {progressInterval}
             t == CHOOSE n \in 1..(Cardinality(kept) + 1) : n \notin kept
         IN IF v
            THEN progressInterval' = t /\ timers' = kept \cup {t}
            ELSE progressInterval' = NoTimer /\ timers' = kept

\* handleSearch up to its await: the submit button is disabled while loading.
handleSearch ==
    /\ mounted
    /\ ~isLoading
    /\ searches < MaxSearches
    /\ isLoading' = TRUE
    /\ error' = NULL
    /\ hasSearched' = TRUE
    /\ progress' = FirstStep
    /\ searches' = searches + 1
    /\ requests' = requests \cup {PostSearchRequest}
    /\ useEffect(TRUE)
    /\ UNCHANGED <<results, polls, mounted, jobVars,
                   hookVars>>

\* api.searchCreators resolves: setResults(response), then the finally block.
SearchResolves ==
    /\ mounted
    /\ searches > 0
    /\ \E r \in SearchResponses : results' = r
    /\ isLoading' = FALSE
    /\ progress' = NoStep
    /\ searches' = searches - 1
    /\ useEffect(FALSE)
    /\ UNCHANGED <<error, hasSearched, polls, requests, mounted, jobVars,
                   hookVars>>

\* api.searchCreators rejects: the catch block, then the finally block.
SearchRejects ==
    /\ mounted
    /\ searches > 0
    /\ \E m \in SearchErrors : error' = m
    /\ results' = NULL
    /\ isLoading' = FALSE
    /\ progress' = NoStep
    /\ searches' = searches - 1
    /\ useEffect(FALSE)
    /\ UNCHANGED <<hasSearched, polls, requests, mounted, jobVars,
                   hookVars>>

\* handleReset, the click on the logo.
handleReset ==
    /\ mounted
    /\ hasSearched' = FALSE
    /\ results' = NULL
    /\ error' = NULL
    /\ isLoading' = FALSE
    /\ progress' = NoStep
    /\ useEffect(FALSE)
    /\ UNCHANGED <<searches, polls, requests, mounted, jobVars,
                   hookVars>>

\* onRetry of the error state.
onRetry ==
    /\ mounted
    /\ hasSearched /\ error # NULL
    /\ error' = NULL
    /\ hasSearched' = FALSE
    /\ UNCHANGED <<isLoading, results, progress, progressInterval, timers,
                   searches, polls, requests, mounted, jobVars,
                   hookVars>>

\* The interval callback fires and calls api.getProgress().
IntervalFires ==
    /\ timers # {}
    /\ polls < MaxPolls
    /\ polls' = polls + 1
    /\ requests' = requests \cup {GetProgressRequest}
    /\ UNCHANGED <<isLoading, error, results, hasSearched, progress,
                   progressInterval, timers, searches, mounted, jobVars,
                   hookVars>>

\* api.getProgress resolves: setProgress of the step it returned.
getProgressResolves ==
    /\ mounted
    /\ polls > 0
    /\ \E s \in Steps : progress' = s
    /\ polls' = polls - 1
    /\ UNCHANGED <<isLoading, error, results, hasSearched, progressInterval,
                   timers, searches, requests, mounted, jobVars,
                   hookVars>>

\* api.getProgress rejects: the error is ignored.
getProgressRejects ==
    /\ mounted
    /\ polls > 0
    /\ polls' = polls - 1
    /\ UNCHANGED <<isLoading, error, results, hasSearched, progress,
                   progressInterval, timers, searches, requests, mounted,
                   jobVars, hookVars>>

\* The page unmounts: the cleanup of the effect clears the interval the ref
\* holds.
unmount ==
    /\ mounted
    /\ mounted' = FALSE
    /\ timers' = timers \ {progressInterval}
    /\ UNCHANGED <<isLoading, error, results, hasSearched, progress,
                   progressInterval, searches, polls, requests, jobVars,
                   hookVars>>

\* A request of the unmounted page settles: its setState calls do nothing.
SettlesUnmounted ==
    /\ ~mounted
    /\ \/ searches > 0 /\ searches' = searches - 1 /\ polls' = polls
       \/ polls > 0 /\ polls' = polls - 1 /\ searches' = searches
    /\ UNCHANGED <<isLoading, error, results, hasSearched, progress,
                   progressInterval, timers, requests, mounted, jobVars,
                   hookVars>>

HomeNext ==
    \/ handleSearch
    \/ SearchResolves
    \/ SearchRejects
    \/ handleReset
    \/ onRetry
    \/ IntervalFires
    \/ getProgressResolves
    \/ getProgressRejects
    \/ unmount
    \/ SettlesUnmounted

HomeSpec == Init /\ [][HomeNext]_vars

\* ---------------------------------------------------- the useSearch hook
\* The creators the backend has for a query, and the page of them that a
\* request with limit PageLimit and the given offset returns.
Catalogue(q) == [i \in 1..MaxCreators |-> <<q, i>>]

Min(a, b) == IF a <= b THEN a ELSE b

Page(q, offset) ==
    SubSeq(Catalogue(q), offset + 1, Min(offset + PageLimit, MaxCreators))

\* The SearchResponse to a request.
Response(q, offset) ==
    [query |-> q, creators |-> Page(q, offset), filtered_count |-> MaxCreators]

\* The requests in flight, all marked as older than the search now starting.
Older(S) == [i \in DOMAIN S |-> [S[i] EXCEPT !.latest = FALSE]]

Remove(S, i) == SubSeq(S, 1, i - 1) \o SubSeq(S, i + 1, Len(S))

\* search(query) up to its await.
search(q) ==
    /\ Len(inflight) < MaxSearches
    /\ hookIsLoading' = TRUE
    /\ hookError' = NULL
    /\ inflight' = Append(Older(inflight),
                          [op |-> "search", query |-> q, offset |-> 0,
                           base |-> <<>>, latest |-> TRUE])
    /\ UNCHANGED <<hookResults, jobVars, homeVars>>

\* loadMore() up to its await: it returns at once when results is null or
\* isLoading is true; the request and the later setResults use the results of
\* the render in which loadMore was called.
loadMore ==
    /\ hookResults # NoResults
    /\ ~hookIsLoading
    /\ Len(inflight) < MaxSearches
    /\ hookIsLoading' = TRUE
    /\ hookError' = NULL
    /\ inflight' = Append(inflight,
                          [op |-> "loadMore", query |-> hookResults.query,
                           offset |-> Len(hookResults.creators),
                           base |-> hookResults.creators,
                           latest |-> \A i \in DOMAIN inflight :
                                         ~(inflight[i].op = "search"
                                           /\ inflight[i].latest)])
    /\ UNCHANGED <<hookResults, jobVars, homeVars>>

\* reset()
reset ==
    /\ hookResults' = NoResults
    /\ hookError' = NULL
    /\ hookIsLoading' = FALSE
    /\ UNCHANGED <<inflight, jobVars, homeVars>>

\* api.searchCreators of request i resolves: the try branch of search or of
\* loadMore, then finally.
RequestResolves(i) ==
    /\ i \in DOMAIN inflight
    /\ LET r == inflight[i]
           response == Response(r.query, r.offset)
       IN hookResults' =
            IF r.op = "search" THEN response
            ELSE [response EXCEPT !.creators = r.base \o response.creators]
    /\ hookIsLoading' = FALSE
    /\ inflight' = Remove(inflight, i)
    /\ UNCHANGED <<hookError, jobVars, homeVars>>

\* api.searchCreators of request i rejects: the catch branch of search or of
\* loadMore, then finally.
RequestRejects(i) ==
    /\ i \in DOMAIN inflight
    /\ IF inflight[i].op = "search"
       THEN \E m \in SearchErrors : hookError' = m /\ hookResults' = NoResults
       ELSE hookError' = LoadMoreError /\ hookResults' = hookResults
    /\ hookIsLoading' = FALSE
    /\ inflight' = Remove(inflight, i)
    /\ UNCHANGED <<jobVars, homeVars>>

HookNext ==
    \/ \E q \in Queries : search(q)
    \/ loadMore
    \/ reset
    \/ \E i \in 1..MaxSearches : RequestResolves(i)
    \/ \E i \in 1..MaxSearches : RequestRejects(i)

HookSpec == Init /\ [][HookNext]_vars

\* ================================================================ claims
Pending(id) == jobs[id].status = "pending"
Running(id) == jobs[id].status = "running"
IsTerminal(id) == jobs[id].status \in Terminal

\* C1: no job is ever returned by the claim statement to two callers: every
\* job is delivered at most once, two open claim statements never hold the
\* same row, and two workers never execute the same job.
C1_AtMostOneClaim ==
    /\ \A id \in JobIds : delivered[id] <= 1
    /\ \A id \in JobIds : delivered[id] = 0 <=> Pending(id)
    /\ \A w1, w2 \in Workers :
          w1 # w2 =>
            /\ sel[w1] # NoJob => sel[w1] # sel[w2]
            /\ pc[w1] = "execute" /\ pc[w2] = "execute" => cur[w1] # cur[w2]

\* C1 witness: one job, one worker received it, the other claimed and got none.
C1_Witness ==
    \E w1, w2 \in Workers :
        /\ w1 # w2
        /\ Len(jobs) = 1
        /\ delivered[1] = 1
        /\ pc[w1] = "execute" /\ cur[w1] = 1
        /\ pc[w2] = "sleep"

\* C2: once a job is completed or failed, no step changes its status, result
\* or error_message.
C2_TerminalImmutable ==
    [][\A id \in JobIds :
          IsTerminal(id) =>
            /\ jobs'[id].status = jobs[id].status
            /\ jobs'[id].result = jobs[id].result
            /\ jobs'[id].error_message = jobs[id].error_message]_vars

\* C3: a completed or failed job has exactly one of result and error_message
\* set; a pending or running job has neither.
C3_ResultErrorExclusive ==
    \A id \in JobIds :
        /\ IsTerminal(id) =>
             (jobs[id].result # NULL) # (jobs[id].error_message # NULL)
        /\ ~IsTerminal(id) =>
             jobs[id].result = NULL /\ jobs[id].error_message = NULL

\* C3 witness: a completed job with a result beside a failed job with an error.
C3_Witness ==
    \E a, b \in JobIds :
        /\ jobs[a].status = "completed" /\ jobs[a].result \in Results
        /\ jobs[b].status = "failed" /\ jobs[b].error_message \in Messages

\* C4: every change of a job's status is pending -> running,
\* running -> completed or running -> failed.
C4_MonotonicStatus ==
    [][\A id \in JobIds :
          jobs'[id].status # jobs[id].status =>
            \/ Pending(id) /\ jobs'[id].status = "running"
            \/ Running(id) /\ jobs'[id].status \in Terminal]_vars

\* C4 witness: one job has run to a terminal status and a later one is running.
C4_Witness ==
    \E a, b \in JobIds :
        /\ IsTerminal(a)
        /\ Running(b)
        /\ jobs[a].started_at <= jobs[b].started_at

\* A claim statement picks its row in this step.
Picks(w) == pc[w] = "claim" /\ pc'[w] = "update"

\* C5 as stated: every claim picks a job whose created_at is least among all
\* the jobs that are pending at that moment.
C5_FifoAmongPending ==
    [][\A w \in Workers :
          Picks(w) =>
            \A o \in JobIds :
                Pending(o) => jobs[sel'[w]].created_at <= jobs[o].created_at]_vars

\* C5 as amended: every claim picks a pending job whose created_at is least
\* among the pending jobs that no other open claim has locked; when no other
\* claim is open (sequential calls) that is the least among all pending jobs.
C5_FifoAmongUnlocked ==
    [][\A w \in Workers :
          Picks(w) =>
            /\ Pending(sel'[w])
            /\ \A o \in JobIds :
                  Pending(o) /\ ~Locked(o)
                    => jobs[sel'[w]].created_at <= jobs[o].created_at
            /\ (\A v \in Workers : sel[v] = NoJob) =>
                  \A o \in JobIds :
                      Pending(o) => jobs[sel'[w]].created_at <= jobs[o].created_at]_vars

\* C5 witness: a claim holds the older of two pending jobs inserted at
\* different instants.
C5_Witness ==
    \E w \in Workers, o \in JobIds :
        /\ pc[w] = "update"
        /\ Pending(o) /\ ~Locked(o)
        /\ jobs[sel[w]].created_at < jobs[o].created_at

\* A finalize call on row id happens in this step.
FinalizeCalled(id) ==
    \/ \E r \in Results : FinalizeSuccessCall(id, r)
    \/ \E m \in Messages : FinalizeFailureCall(id, m)

\* C6: finalize_success and finalize_failure on a job that is not running
\* perform no status transition.
C6_FinalizeGuarded ==
    [][\A id \in JobIds :
          FinalizeCalled(id) /\ ~Running(id) =>
              jobs'[id].status = jobs[id].status]_vars

\* C7: write_progress on a job that is not running leaves its progress,
\* status, result and error_message as they were.
C7_ProgressGuarded ==
    [][\A id \in JobIds :
          (\E p \in Progresses : WriteProgressCall(id, p)) /\ ~Running(id) =>
              /\ jobs'[id].progress = jobs[id].progress
              /\ jobs'[id].status = jobs[id].status
              /\ jobs'[id].result = jobs[id].result
              /\ jobs'[id].error_message = jobs[id].error_message]_vars

\* C8: a status read changes no job record, and a read of a job whose record
\* is as the previous read of it returned gives the same response again.
C8_ReadIdempotent ==
    [][\A id \in 0..MaxJobs :
          GetJob(id) =>
            /\ jobs' = jobs
            /\ resp = read(id) => resp' = resp]_vars

\* C8 witness: the last response is the record of a running job with progress.
C8_Witness ==
    /\ resp.id \in JobIds
    /\ resp.job = jobs[resp.id]
    /\ Running(resp.id)
    /\ jobs[resp.id].progress \in Progresses

\* C9: when the executor of a worker's job raises, the worker stays in its
\* loop at the claim step, the job is failed with the message, and no other
\* row and no other worker changes.
C9_FailureContained ==
    [][\A w \in Workers :
          ExecutorRaise(w) =>
            /\ pc'[w] = "claim"
            /\ jobs'[cur[w]].status = "failed"
            /\ jobs'[cur[w]].error_message \in Messages
            /\ Len(jobs') = Len(jobs)
            /\ \A id \in JobIds : id # cur[w] => jobs'[id] = jobs[id]
            /\ \A v \in Workers : v # w => pc'[v] = pc[v]]_vars

\* C9 witness: a worker whose last job failed in its executor has picked the
\* next pending job.
C9_Witness ==
    \E w \in Workers :
        /\ pc[w] = "update"
        /\ cur[w] # NoJob
        /\ jobs[cur[w]].status = "failed"
        /\ jobs[cur[w]].error_message \in Messages
        /\ sel[w] # cur[w]

\* A job of a type without executor.
Unregistered(id) == id \in JobIds /\ jobs[id].type \notin Registered

C11_LastWriteWins ==
    [][/\ \A w \in Workers, p \in Progresses :
            progress_callback(w, p) =>
                Running(cur[w]) /\ jobs'[cur[w]].progress = p
       /\ \A id \in JobIds :
            /\ Running(id)
            /\ jobs'[id].status = "running"
            /\ jobs'[id].progress # jobs[id].progress
            => \E w \in Workers, p \in Progresses :
                   progress_callback(w, p) /\ cur[w] = id
       /\ \A id \in JobIds :
            GetJob(id) /\ Running(id) =>
                /\ resp'.job.status = "running"
                /\ resp'.job.progress = jobs[id].progress]_vars

\* C11 witness: a read of a running job returned progress a, and the executor
\* has since called the callback with b.
C11_Witness ==
    /\ resp.id \in JobIds
    /\ Running(resp.id)
    /\ resp.job.status = "running"
    /\ resp.job.progress = "a"
    /\ jobs[resp.id].progress = "b"

\* C12: success path.  A job reads as pending, with no progress, result or
\* error, as long as no worker has claimed it; when the executor of its worker
\* returns r the job becomes completed with result r and no error; a completed
\* job does not change any more, and a read of it returns status completed
\* with that result.
C12_SuccessPath ==
    [][/\ \A id \in JobIds :
            GetJob(id) /\ delivered[id] = 0 =>
                /\ resp'.job.status = "pending"
                /\ resp'.job.progress = NULL
                /\ resp'.job.result = NULL
                /\ resp'.job.error_message = NULL
       /\ \A w \in Workers, r \in Results :
            executor_returns(w, r) =>
                /\ Running(cur[w])
                /\ jobs'[cur[w]].status = "completed"
                /\ jobs'[cur[w]].result = r
                /\ jobs'[cur[w]].error_message = NULL
       /\ \A id \in JobIds :
            jobs[id].status = "completed" =>
                /\ jobs'[id] = jobs[id]
                /\ GetJob(id) =>
                      /\ resp'.job.status = "completed"
                      /\ resp'.job.result = jobs[id].result
                      /\ resp'.job.error_message = NULL]_vars

\* C12 witness: the last read returned a completed job with the result r2 of
\* its executor and no error.
C12_Witness ==
    /\ resp.id \in JobIds
    /\ resp.job = jobs[resp.id]
    /\ resp.job.status = "completed"
    /\ resp.job.result = "r2"
    /\ resp.job.error_message = NULL

\* C13: failure path.  When the executor of a worker's job raises with message
\* m the job becomes failed with error_message m and no result; a failed job
\* does not change any more, and a read of it returns status failed with that
\* message and no result.
C13_FailurePath ==
    [][/\ \A w \in Workers, m \in Messages :
            executor_raises(w, m) =>
                /\ Running(cur[w])
                /\ jobs'[cur[w]].status = "failed"
                /\ jobs'[cur[w]].error_message = m
                /\ jobs'[cur[w]].result = NULL
       /\ \A id \in JobIds :
            jobs[id].status = "failed" =>
                /\ jobs'[id] = jobs[id]
                /\ jobs[id].result = NULL
                /\ GetJob(id) =>
                      /\ resp'.job.status = "failed"
                      /\ resp'.job.error_message = jobs[id].error_message
                      /\ resp'.job.result = NULL]_vars

\* C13 witness: the last read returned a job that failed in its executor after
\* it had reported progress: the message is there and no result.
C13_Witness ==
    /\ resp.id \in JobIds
    /\ resp.job = jobs[resp.id]
    /\ resp.job.status = "failed"
    /\ resp.job.error_message \in Messages
    /\ resp.job.progress \in Progresses
    /\ resp.job.result = NULL

\* C14: a submission with an unrecognized kind or a payload that does not
\* match the schema is answered with ValidationError and creates no job: the
\* job records are as before.
C14_InvalidSubmissionRejected ==
    [][\A k \in Kinds \cup {BadKind}, p \in Payloads \cup {BadPayload} :
          Submit(k, p) /\ (k = BadKind \/ p = BadPayload) =>
              /\ resp'.job = ValidationError
              /\ resp'.id = NoJob
              /\ jobs' = jobs]_vars

\* C14 witness: one valid submission made a job, a later malformed one was
\* answered with ValidationError and the job records are still that one job.
C14_Witness ==
    /\ resp.job = ValidationError
    /\ Len(jobs) = 1
    /\ Running(1)

C16_DiscriminatedSnapshot ==
    /\ [](resp.job # NotFound =>
            /\ resp.job.status \in {"pending", "running", "completed", "failed"}
            /\ resp.job.status = "pending" =>
                  /\ resp.job.progress = NULL
                  /\ resp.job.result = NULL
                  /\ resp.job.error_message = NULL
            /\ resp.job.status = "running" =>
                  /\ resp.job.result = NULL
                  /\ resp.job.error_message = NULL
            /\ resp.job.status = "completed" <=> resp.job.result # NULL
            /\ resp.job.status = "failed" <=> resp.job.error_message # NULL)
    /\ [][\A id \in 0..MaxJobs :
            GetJob(id) => (resp'.job = NotFound <=> id \notin JobIds)]_vars

\* C16 witness: the last read returned the pending snapshot of a job that has
\* completed since.
C16_Witness ==
    /\ resp.id \in JobIds
    /\ resp.job # NotFound
    /\ resp.job.status = "pending"
    /\ jobs[resp.id].status = "completed"

\* C17: a step of the web API (the enqueue of a job, a status read) changes no
\* existing row, and an enqueue adds exactly one pending row without progress,
\* result or error; every change of an existing row is a step of a worker
\* loop on the row it claimed.
C17_SingleWriter ==
    [][/\ (PostSearch \/ InsertOther \/ \E id \in 0..MaxJobs : GetJob(id)) =>
            \A id \in JobIds : jobs'[id] = jobs[id]
       /\ (PostSearch \/ InsertOther) =>
            /\ Len(jobs') = Len(jobs) + 1
            /\ jobs'[Len(jobs')].status = "pending"
            /\ jobs'[Len(jobs')].progress = NULL
            /\ jobs'[Len(jobs')].result = NULL
            /\ jobs'[Len(jobs')].error_message = NULL
       /\ \A id \in JobIds :
            jobs'[id] # jobs[id] =>
                \E w \in Workers :
                    /\ WorkerStep(w)
                    /\ id = IF pc[w] = "update" THEN sel[w] ELSE cur[w]]_vars

\* C17 witness: a job runs with progress written by its worker, and a job
\* enqueued after it was claimed waits pending.
C17_Witness ==
    \E a, b \in JobIds :
        /\ Running(a)
        /\ jobs[a].progress \in Progresses
        /\ Pending(b)
        /\ jobs[b].created_at > jobs[a].started_at

\* C18: every request with which the Home page polls for the outcome of its
\* search is a GET of /jobs/{job_id}, the status of the job that the POST of
\* the search returned.
C18_PollsJobUntilTerminal ==
    \A q \in requests : q.method = "GET" => q.path = GetJobPath

\* C19 as stated: when several pending jobs share the least created_at, the
\* claim picks the one with the smallest id.
C19_SmallestIdOnTies ==
    [][\A w \in Workers :
          Picks(w) =>
            \A o \in Claimable :
                jobs[o].created_at = jobs[sel'[w]].created_at => sel'[w] <= o]_vars

\* C19 as amended: the claim picks a claimable job than which no claimable
\* job is strictly older; among several jobs with the least created_at it may
\* pick any.
C19_AnyOldestOnTies ==
    [][\A w \in Workers :
          Picks(w) =>
            /\ sel'[w] \in Claimable
            /\ ~\E o \in Claimable :
                  jobs[o].created_at < jobs[sel'[w]].created_at]_vars

\* C19 witness: of two jobs inserted at the same instant a claim holds the
\* one with the larger id, the other being pending and unlocked.
C19_Witness ==
    \E w \in Workers, o \in JobIds :
        /\ pc[w] = "update"
        /\ Pending(o) /\ ~Locked(o)
        /\ jobs[o].created_at = jobs[sel[w]].created_at
        /\ o < sel[w]

\* C20: a job has started_at set exactly when its status is not pending.
C20_StartedIffNotPending ==
    \A id \in JobIds : jobs[id].started_at # NoTime <=> ~Pending(id)

\* C20 witness: a pending job without started_at beside a finished job whose
\* started_at is not before its created_at.
C20_Witness ==
    \E a, b \in JobIds :
        /\ Pending(a) /\ jobs[a].started_at = NoTime
        /\ IsTerminal(b)
        /\ jobs[b].started_at >= jobs[b].created_at

\* C21: a progress callback of a worker changes only progress and updated_at
\* of the job that worker executes: every other row, and every other column
\* of that row, stays as it was, also while another worker executes another
\* job.
C21_ProgressScopedById ==
    [][\A w \in Workers, p \in Progresses :
          progress_callback(w, p) =>
            /\ Len(jobs') = Len(jobs)
            /\ \A id \in JobIds : id # cur[w] => jobs'[id] = jobs[id]
            /\ jobs'[cur[w]] = [jobs[cur[w]] EXCEPT
                                  !.progress = p, !.updated_at = now]]_vars

\* C21 witness: two workers execute different jobs whose progress differs.
C21_Witness ==
    \E w1, w2 \in Workers :
        /\ pc[w1] = "execute" /\ pc[w2] = "execute"
        /\ cur[w1] # cur[w2]
        /\ Running(cur[w1]) /\ Running(cur[w2])
        /\ jobs[cur[w1]].progress = "a"
        /\ jobs[cur[w2]].progress = "b"

\* C22: a worker goes to sleep only from a claim statement that returned no
\* row, and such a claim always sends it to sleep; when a worker leaves the
\* execution of a job (success, failure, no executor) its next step is the
\* claim statement.
C22_LoopPacing ==
    [][\A w \in Workers :
          /\ pc'[w] = "sleep" /\ pc[w] # "sleep" =>
                pc[w] = "claim" /\ Claimable = {}
          /\ ClaimSelect(w) /\ Claimable = {} => pc'[w] = "sleep"
          /\ pc[w] = "execute" /\ pc'[w] # "execute" =>
                /\ IsTerminal(cur[w])'
                /\ pc'[w] = "claim"]_vars

\* C22 witness: a worker that completed a job holds the next pending job in
\* its claim statement without having slept.
C22_Witness ==
    \E w \in Workers :
        /\ pc[w] = "update"
        /\ cur[w] # NoJob
        /\ jobs[cur[w]].status = "completed"
        /\ sel[w] # cur[w]
        /\ Pending(sel[w])

\* C23: a running job leaves running only to completed or failed, and with
\* workers that keep running and executors that return or raise every running
\* job does become completed or failed.
C23_ClaimedJobTerminates ==
    /\ [][\A id \in JobIds :
            Running(id) => jobs'[id].status \in {"running"} \cup Terminal]_vars
    /\ \A id \in 1..MaxJobs :
          (id \in JobIds /\ Running(id)) ~> (id \in JobIds /\ IsTerminal(id))

\* C23 witness: a job that was claimed once is finished while another one is
\* being executed.
C23_Witness ==
    \E a, b \in JobIds :
        /\ IsTerminal(a) /\ delivered[a] = 1
        /\ Running(b) /\ delivered[b] = 1
        /\ \E w \in Workers : pc[w] = "execute" /\ cur[w] = b

\* A running job whose worker is gone.
Orphaned(id) ==
    /\ Running(id)
    /\ \A w \in Workers : ~(pc[w] = "execute" /\ cur[w] = id)

\* C24: a job whose worker crashed between claim and finish stays running: no
\* step changes its status, no claim statement selects or returns it again,
\* and it stays without a worker.
C24_NoLeaseReclaim ==
    [][\A id \in JobIds :
          Orphaned(id) =>
            /\ jobs'[id].status = "running"
            /\ delivered'[id] = delivered[id]
            /\ \A w \in Workers : sel'[w] # id
            /\ Orphaned(id)']_vars

\* C24 witness: a job is running with its worker crashed, and another worker
\* whose claim returned nothing sleeps.
C24_Witness ==
    \E id \in JobIds, v, w \in Workers :
        /\ Orphaned(id)
        /\ pc[v] = "crashed"
        /\ pc[w] = "sleep"

\* C25: on the Home page there is never more than one interval timer; while
\* the page is mounted and isLoading is true exactly the timer of the ref is
\* live, and when isLoading is false or the page is unmounted no timer is.
C25_TimerIffLoading ==
    /\ Cardinality(timers) <= 1
    /\ mounted /\ isLoading =>
          progressInterval # NoTimer /\ timers = {progressInterval}
    /\ ~mounted \/ ~isLoading => timers = {}

\* C25 witness: a search was started, reset and started again, its timer is
\* live and the first request is still in flight.
C25_Witness ==
    /\ mounted /\ isLoading
    /\ searches = 2
    /\ timers = {progressInterval}
    /\ progressInterval # NoTimer

\* C26: when loading has ended and progress is the empty step, progress stays
\* the empty step in every step but the start of the next search.
C26_ProgressStaysCleared ==
    [][/\ (SearchResolves \/ SearchRejects \/ handleReset) =>
            progress' = NoStep
       /\ (~isLoading /\ progress = NoStep /\ ~handleSearch) =>
            progress' = NoStep]_vars

\* The state handleReset leaves.
ResetState ==
    /\ ~hasSearched
    /\ results = NULL
    /\ error = NULL
    /\ ~isLoading

\* C27: handleReset leaves hasSearched false, results and error null and
\* isLoading false, and that state lasts in every step but the start of a new
\* search.
C27_ResetStateLasts ==
    [][/\ handleReset => ResetState'
       /\ (ResetState /\ ~handleSearch) => ResetState']_vars

\* C28: when no search is in flight, error and results are not both set.
C28_ErrorResultsExclusive ==
    searches = 0 => (error = NULL \/ results = NULL)

\* s is the beginning of t.
IsPrefix(s, t) == Len(s) <= Len(t) /\ SubSeq(t, 1, Len(s)) = s

\* s is the end of t.
IsSuffix(s, t) ==
    Len(s) <= Len(t) /\ SubSeq(t, Len(t) - Len(s) + 1, Len(t)) = s

\* C29: loadMore starts a request only when results is set and isLoading is
\* false, with offset the number of creators loaded; when its request resolves
\* the creators loaded at that moment are all kept, in their order, and the
\* list ends with the returned page; when it rejects results is unchanged and
\* error is set.
C29_LoadMoreKeepsCreators ==
    [][/\ loadMore =>
            /\ hookResults # NoResults /\ ~hookIsLoading
            /\ inflight'[Len(inflight')].offset = Len(hookResults.creators)
       /\ \A i \in 1..MaxSearches :
            RequestResolves(i) /\ inflight[i].op = "loadMore" =>
                /\ IsPrefix(hookResults.creators, hookResults'.creators)
                /\ IsSuffix(Page(inflight[i].query, inflight[i].offset),
                            hookResults'.creators)
       /\ \A i \in 1..MaxSearches :
            RequestRejects(i) /\ inflight[i].op = "loadMore" =>
                /\ hookResults' = hookResults
                /\ hookError' = LoadMoreError]_vars

\* C30: isLoading is true whenever a request of the hook is in flight, and
\* the settling of a request older than the most recently started search
\* leaves results as they are.
C30_LatestSearchWins ==
    /\ [](Len(inflight) > 0 => hookIsLoading)
    /\ [][\A i \in 1..MaxSearches :
            /\ RequestResolves(i) \/ RequestRejects(i)
            /\ ~inflight[i].latest
            => hookResults' = hookResults]_vars

====
